---- MODULE Spec2Model ----
(***************************************************************************)
(* A model of library/mssql_global_backup.py: the Ansible module that      *)
(* reconciles a SQL Agent backup job (job, step, schedule, attachment).    *)
(*                                                                         *)
(* Text is modelled as a sequence of tokens.  A token is a piece of a      *)
(* Python string that the program never looks inside: the line feed, the   *)
(* carriage return, a run of blanks, the single quote, a decimal digit, or *)
(* a run of other characters.  split, strip, lstrip, replace, join and the *)
(* substring test are computed on these sequences the way Python computes  *)
(* them on characters.                                                     *)
(***************************************************************************)
EXTENDS Integers, Sequences, FiniteSets, TLC

\* ------------------------------------------------------------------ bounds

\* PYTHONHASHSEED values modelled: each process draws one in 0..MaxSeed
MaxSeed == 1
\* longest include list the generator harness draws
MaxInclude == 2
\* longest user exclude list the generator harness draws
MaxExclude == 1
\* largest rotate value drawn
MaxRotate == 1
\* calls of the generator the harness follows
MaxCalls == 2

\* ------------------------------------------------------------ text helpers

LF == "\n"
CR == "\r"
QUOTE == "'"
Indent4 == "    "
Indent8 == "        "

\* the characters str.strip() removes, as tokens
Whitespace == {" ", Indent4, Indent8, CR, LF, "\t"}

DigitChars == <<"0", "1", "2", "3", "4", "5", "6", "7", "8", "9">>

SetMin(S) == CHOOSE x \in S : \A y \in S : x <= y
SetMax(S) == CHOOSE x \in S : \A y \in S : x >= y

\* str.split(sep): the pieces between the occurrences of sep
RECURSIVE Split(_, _)
Split(s, sep) ==
    LET at == {i \in 1..Len(s) : s[i] = sep}
    IN  IF at = {} THEN <<s>>
        ELSE LET i == SetMin(at)
             IN  <<SubSeq(s, 1, i - 1)>> \o Split(SubSeq(s, i + 1, Len(s)), sep)

\* sep.join(parts)
RECURSIVE Join(_, _)
Join(parts, sep) ==
    IF Len(parts) = 0 THEN <<>>
    ELSE IF Len(parts) = 1 THEN parts[1]
    ELSE parts[1] \o <<sep>> \o Join(Tail(parts), sep)

\* str.strip(): leading and trailing whitespace removed
Strip(s) ==
    LET keep == {i \in 1..Len(s) : s[i] \notin Whitespace}
    IN  IF keep = {} THEN <<>> ELSE SubSeq(s, SetMin(keep), SetMax(keep))

\* str.lstrip(c): leading occurrences of c removed
LStrip(s, c) ==
    LET keep == {i \in 1..Len(s) : s[i] # c}
    IN  IF keep = {} THEN <<>> ELSE SubSeq(s, SetMin(keep), Len(s))

\* str.replace(c, c + c)
RECURSIVE Doubled(_, _)
Doubled(s, c) ==
    LET at == {i \in 1..Len(s) : s[i] = c}
    IN  IF at = {} THEN s
        ELSE LET i == SetMin(at)
             IN  SubSeq(s, 1, i - 1) \o <<c, c>> \o Doubled(SubSeq(s, i + 1, Len(s)), c)

\* needle in hay, for two strings
Contains(hay, needle) ==
    \E i \in 0..(Len(hay) - Len(needle)) :
        SubSeq(hay, i + 1, i + Len(needle)) = needle

\* x in list
InList(x, list) == \E i \in 1..Len(list) : list[i] = x

\* '%d' % n and str(n) for a natural number
RECURSIVE FormatInt(_)
FormatInt(n) ==
    IF n < 10 THEN <<DigitChars[n + 1]>>
    ELSE FormatInt(n \div 10) \o <<DigitChars[(n % 10) + 1]>>

DigitValue(c) == (CHOOSE i \in 1..10 : DigitChars[i] = c) - 1

\* the server's conversion of a digit string to an integer
RECURSIVE ParseInt(_)
ParseInt(s) ==
    IF Len(s) = 0 THEN 0
    ELSE 10 * ParseInt(SubSeq(s, 1, Len(s) - 1)) + DigitValue(s[Len(s)])

\* ------------------------------------------------------------ quoteName

\* quoteName(name, "'"): N'...' with every embedded quote doubled
quoteName(name) == <<"N", QUOTE>> \o Doubled(name, QUOTE) \o <<QUOTE>>

\* what the server reads back from a string literal written by quoteName
RECURSIVE Undoubled(_)
Undoubled(s) ==
    LET at == {i \in 1..(Len(s) - 1) : s[i] = QUOTE /\ s[i + 1] = QUOTE}
    IN  IF at = {} THEN s
        ELSE LET i == SetMin(at)
             IN  SubSeq(s, 1, i - 1) \o <<QUOTE>> \o Undoubled(SubSeq(s, i + 2, Len(s)))

SqlLiteralValue(lit) == Undoubled(SubSeq(lit, 3, Len(lit) - 1))

\* ------------------------------------------------------------ the inputs

\* database names, as strings
master == <<"master">>
model == <<"model">>
msdb == <<"msdb">>
tempdb == <<"tempdb">>
northwind == <<"northwind">>
sales == <<"sales">>
\* a name with an embedded quote
obrien == <<"o", QUOTE, "brien">>

\* set(['master', 'model', 'msdb', 'tempdb'])
ProtectedDatabases == {master, model, msdb, tempdb}

\* the names the harnesses draw include and exclude lists from
IncludeNames == {sales, master, obrien}
ExcludeNames == {northwind, obrien}

\* one fixed enumeration of every database name of the model
AllNames == <<master, model, msdb, tempdb, northwind, sales, obrien>>

DefaultPath == "/var/opt/mssql/backups"

SeqsUpTo(S, n) == UNION {[1..k -> S] : k \in 0..n}

Seeds == 0..MaxSeed

\* The iteration order of a Python set of strings is fixed inside one process
\* and depends on the process's string hash seed.  A set object is modelled as
\* the sequence it iterates in: the elements in one order out of those the
\* seed selects (here the fixed enumeration, rotated by the seed).
SetOrder(S, seed) ==
    LET base == SelectSeq(AllNames, LAMBDA n : n \in S)
        k == IF Len(base) = 0 THEN 0 ELSE seed % Len(base)
    IN  SubSeq(base, k + 1, Len(base)) \o SubSeq(base, 1, k)

Range(f) == {f[i] : i \in DOMAIN f}

\* marks a diagnostic attribute that no probe has assigned yet
Unset == <<"<unset>">>

\* BackupJob(...) as main constructs it: the exclude argument is the set
\* set(['master', 'model', 'msdb', 'tempdb']) | set(module.params['exclude'])
BackupJobNew(name, include, exclude, per_database, rotate) ==
    [name |-> name, job_name |-> name,
     include |-> include, exclude |-> exclude,
     per_database |-> per_database, rotate |-> rotate,
     step_results |-> Unset, schedule_results |-> Unset, attach_results |-> Unset]

\* a construction that hands over the user's exclude list alone
MainBackupJobUserExclude(p, seed) ==
    BackupJobNew(p.name, p.include, SetOrder(Range(p.exclude), seed),
                 p.per_database, p.rotate)

\* a construction that hands over the protected databases alone
MainBackupJobProtectedOnly(p, seed) ==
    BackupJobNew(p.name, p.include, SetOrder(ProtectedDatabases, seed),
                 p.per_database, p.rotate)

MainBackupJob(p, seed) ==
    BackupJobNew(p.name, p.include,
                 SetOrder(ProtectedDatabases \cup Range(p.exclude), seed),
                 p.per_database, p.rotate)

\* ------------------------------------------------------ backup_step_sql

\* the names of the exclude set listed whatever the include list holds
DatabasesFromExclude(self) ==
    [i \in 1..Len(self.exclude) |-> quoteName(self.exclude[i])]

\* databases = [ quoteName(name, "'") for name in ... ]
Databases(self) ==
    IF Len(self.include) > 0
    THEN [i \in 1..Len(self.include) |-> quoteName(self.include[i])]
    ELSE [i \in 1..Len(self.exclude) |-> quoteName(self.exclude[i])]

WhereFormat(self) ==
    IF Len(self.include) > 0 THEN "name IN (" ELSE "name NOT IN ("

\* where % (','.join(databases))
WhereClause(self) == <<WhereFormat(self)>> \o Join(Databases(self), ",") \o <<")">>

\* raise Exception("missing databases: ...")
MissingDatabases(self) == Len(Databases(self)) = 0

FilePath(self, path) ==
    IF self.per_database
    THEN <<QUOTE, path, "/", QUOTE, " + ", "@name">>
    ELSE <<QUOTE, path, QUOTE>>

FileName(self) ==
    IF self.rotate = 0
    THEN <<"@name", " + ", QUOTE, "_", QUOTE, " + ", "@fileDate">>
    ELSE <<"@name">>

\* the text backup_step_sql returns (type is not used by the code)
backup_step_sql(self, type, path) ==
    <<LF>>
    \o <<"DECLARE @name VARCHAR(50);", CR, LF>>
    \o <<"DECLARE @path VARCHAR(256);", CR, LF>>
    \o <<"DECLARE @fileName VARCHAR(256);", CR, LF>>
    \o <<"DECLARE @fileDate VARCHAR(20);", CR, LF>>
    \o <<"SET @fileDate = (Select Replace(Convert(nvarchar, GetDate(), 111), ",
         QUOTE, "/", QUOTE, ", ", QUOTE, QUOTE, ") + ", QUOTE, "_", QUOTE,
         " + Replace(Convert(nvarchar, GetDate(), 108), ",
         QUOTE, ":", QUOTE, ", ", QUOTE, QUOTE, "));", CR, LF>>
    \o <<"DECLARE db_cursor CURSOR FOR", CR, LF>>
    \o <<Indent4, "SELECT name FROM master.sys.databases WHERE ">>
    \o WhereClause(self) \o <<";", CR, LF>>
    \o <<"OPEN db_cursor;", CR, LF>>
    \o <<"FETCH NEXT FROM db_cursor INTO @name;", CR, LF>>
    \o <<"WHILE @@FETCH_STATUS = 0", CR, LF>>
    \o <<"BEGIN", CR, LF>>
    \o <<Indent4, "SET @fileName = ">> \o FilePath(self, path)
    \o <<" + ", QUOTE, "/", QUOTE, " + ">> \o FileName(self)
    \o <<" + ", QUOTE, ".bak", QUOTE, ";", CR, LF>>
    \o <<Indent4, "BACKUP DATABASE @name TO DISK=@fileName WITH COMPRESSION, NOFORMAT, NOINIT, SKIP, NOREWIND, NOUNLOAD, STATS=10;", CR, LF>>
    \o <<Indent4, "FETCH NEXT FROM db_cursor INTO @name;", CR, LF>>
    \o <<"END", CR, LF>>
    \o <<"CLOSE db_cursor;", CR, LF>>
    \o <<"DEALLOCATE db_cursor;", CR, LF>>
    \o <<"GO", LF>>
    \o <<Indent8>>

\* ------------------------------------------------------------ the state

VARIABLES
    sysjobs,          \* msdb.dbo.sysjobs: the names of the jobs
    sysjobsteps,      \* msdb.dbo.sysjobsteps: records [job, step_name, command]
    sysschedules,     \* msdb.dbo.sysschedules: records [name, enabled, freq_type, freq_interval, active_start_time]
    sysjobschedules,  \* msdb.dbo.sysjobschedules: records [job, schedule]
    sysjobservers,    \* msdb.dbo.sysjobservers: the names of the jobs with a target server
    pc,               \* where the process is in main
    params,           \* module.params
    backup,           \* the BackupJob object of the process
    changed,          \* main's local variable changed
    issued,           \* the mutations this run has sent to the server
    failure,          \* why the run ended without a result
    rerun,            \* this run repeats the previous run's configuration
    fresh,            \* the server held none of the four objects when this run began
    existed,          \* what backup.job_exists() returned to main
    genOut,           \* the scripts backup_step_sql has returned, generator alone
    log,              \* the sqlcmd calls this run has made, in order, each with its outcome
    tempfile,         \* the file this run's step_manage wrote is on the disk
    peer              \* the other process of main, suspended between two of its calls

server == <<sysjobs, sysjobsteps, sysschedules, sysjobschedules, sysjobservers>>
process == <<pc, params, backup, changed, issued, failure, rerun, fresh, existed,
             log, tempfile>>
vars == <<sysjobs, sysjobsteps, sysschedules, sysjobschedules, sysjobservers,
          pc, params, backup, changed, issued, failure, rerun, fresh, existed,
          genOut, log, tempfile, peer>>

\* self.schedule_name and self.backup_step_name
schedule_name == <<"ansible schedule">>
backup_step_name == <<"ansible backup step">>

\* main's table schedule_types
schedule_types ==
    [once |-> <<"1">>, daily |-> <<"4">>, weekly |-> <<"8">>,
     monthly |-> <<"1", "6">>, onstart |-> <<"6", "4">>, idle |-> <<"1", "2", "8">>]

\* a is 'literal': true only when the two are one object.  Whether a string
\* that equals the literal is that very object depends on where the string
\* came from (a default of the argument spec, a value decoded from the
\* caller's JSON) and on the interpreter; `same` is that fact, an input.
Is(a, literal, same) == a = literal /\ same

\* ------------------------------------------------------------ the server

\* what sqlcmd prints for a query: every row followed by a line feed
RECURSIVE SqlOutput(_)
SqlOutput(rows) ==
    IF Len(rows) = 0 THEN <<>> ELSE Head(rows) \o <<LF>> \o SqlOutput(Tail(rows))

\* some enumeration of a finite set of rows
RECURSIVE RowsOf(_)
RowsOf(S) ==
    IF S = {} THEN <<>>
    ELSE LET r == CHOOSE x \in S : TRUE IN <<r>> \o RowsOf(S \ {r})

\* SELECT name FROM dbo.sysjobs WHERE name=N'...'
SelectJob(jobs, job_name) == RowsOf({n \in jobs : n = job_name})

\* SELECT command FROM dbo.sysjobsteps sjs JOIN dbo.sysjobs sj ... WHERE sj.name=.. AND sjs.step_name=..
SelectStepCommand(jobs, steps, job_name, step_name) ==
    RowsOf({r.command : r \in {x \in steps :
                x.job \in jobs /\ x.job = job_name /\ x.step_name = step_name}})

\* SELECT enabled,freq_type,freq_interval,active_start_time FROM dbo.sysschedules WHERE name='...'
\* printed with the column separator ","
SelectSchedule(schedules, name) ==
    RowsOf({Join(<<FormatInt(r.enabled), FormatInt(r.freq_type),
                   FormatInt(r.freq_interval), FormatInt(r.active_start_time)>>, ",")
            : r \in {x \in schedules : x.name = name}})

\* SELECT sjs.job_id FROM dbo.sysjobschedules sjs LEFT JOIN ... WHERE sj.name=.. and ss.name=..
SelectAttachment(jobs, schedules, links, job_name, name) ==
    RowsOf({<<"job_id of ">> \o r.job : r \in {x \in links :
                x.job \in jobs /\ x.job = job_name
                /\ x.schedule = name /\ \E s \in schedules : s.name = name}})

\* IF NOT EXISTS (SELECT name FROM dbo.sysjobs WHERE name=..) EXEC sp_add_job
SpAddJobGuarded(jobs, name_literal) == jobs \cup {SqlLiteralValue(name_literal)}

\* the step script: sp_add_jobstep fails when the job does not exist
StepScriptFails(jobs, steps, job_literal, step_literal) ==
    SqlLiteralValue(job_literal) \notin jobs

\* IF NOT EXISTS (...) sp_add_jobstep ... ELSE sp_update_jobstep @step_id = 1 ...
StepScript(jobs, steps, job_literal, step_literal, command_literal) ==
    LET j == SqlLiteralValue(job_literal)
        n == SqlLiteralValue(step_literal)
        c == SqlLiteralValue(command_literal)
    IN  IF \E x \in steps : x.job = j /\ x.step_name = n
        THEN {IF x.job = j THEN [x EXCEPT !.command = c] ELSE x : x \in steps}
        ELSE steps \cup {[job |-> j, step_name |-> n, command |-> c]}

\* the row sp_add_schedule and sp_update_schedule store: the arguments are
\* converted to integers, and a one-time schedule (freq_type 1) has
\* freq_interval 0
ScheduleRow(name, freq_type, freq_interval, active_start_time) ==
    [name |-> name, enabled |-> 1, freq_type |-> ParseInt(freq_type),
     freq_interval |-> IF ParseInt(freq_type) = 1 THEN 0 ELSE ParseInt(freq_interval),
     active_start_time |-> ParseInt(active_start_time)]

\* IF NOT EXISTS (...) sp_add_schedule ... ELSE sp_update_schedule ...
ScheduleScript(schedules, name_literal, freq_type, freq_interval, active_start_time) ==
    LET n == SqlLiteralValue(name_literal)
        row == ScheduleRow(n, freq_type, freq_interval, active_start_time)
    IN  IF \E x \in schedules : x.name = n
        THEN {IF x.name = n THEN row ELSE x : x \in schedules}
        ELSE schedules \cup {row}

\* sp_attach_schedule fails without the job or the schedule; sp_add_jobserver
\* fails when the job already has its target server
AttachScriptFails(jobs, schedules, servers, job_literal, name_literal) ==
    \/ SqlLiteralValue(job_literal) \notin jobs
    \/ ~ \E s \in schedules : s.name = SqlLiteralValue(name_literal)
    \/ SqlLiteralValue(job_literal) \in servers

\* EXEC sp_attach_schedule @job_name = .., @schedule_name = ..
SpAttachSchedule(links, job_literal, name_literal) ==
    links \cup {[job |-> SqlLiteralValue(job_literal),
                 schedule |-> SqlLiteralValue(name_literal)]}

\* EXEC sp_add_jobserver @job_name = .., @server_name=N'(LOCAL)'
SpAddJobserver(servers, job_literal) == servers \cup {SqlLiteralValue(job_literal)}

\* ------------------------------------------------------------ the probes

\* [i.strip() for i in sqlresults(...).split("\n") if i]
result_filter(out) ==
    LET lines == SelectSeq(Split(out, LF), LAMBDA i : Len(i) > 0)
    IN  [k \in 1..Len(lines) |-> Strip(lines[k])]

\* self.job_name in sqlresults(...).split("\n")
job_exists(self) ==
    InList(self.job_name, Split(SqlOutput(SelectJob(sysjobs, self.job_name)), LF))

\* the value backup_step_exists assigns to self.step_results
StepResults(self) ==
    Join(result_filter(SqlOutput(
            SelectStepCommand(sysjobs, sysjobsteps, self.job_name, backup_step_name))), LF)

\* return self.backup_step_sql(type, path) in self.step_results
backup_step_exists(self, type, path) ==
    Contains(StepResults(self), backup_step_sql(self, type, path))

\* the rows schedule_exists reads
ScheduleResults == result_filter(SqlOutput(SelectSchedule(sysschedules, schedule_name)))

\* a Python value that is an int or a str
IntValue(n) == [kind |-> "int", int |-> n, str |-> <<>>]
StrValue(t) == [kind |-> "str", int |-> 0, str |-> t]

\* if type is '1': interval = '0'
ProbeInterval(type, type_same, interval) ==
    IF Is(type, <<"1">>, type_same) THEN StrValue(<<"0">>) ELSE IntValue(interval)

\* if start_time is '000000': start_time = '0' else: start_time = start_time.lstrip('0')
ProbeStartTime(start_time, start_same) ==
    IF Is(start_time, <<"0", "0", "0", "0", "0", "0">>, start_same)
    THEN <<"0">>
    ELSE LStrip(start_time, "0")

\* '%d' % interval raises TypeError when interval is a str
ScheduleExistsRaises(type, type_same, interval, start_time, start_same) ==
    /\ Len(ScheduleResults) > 0
    /\ ProbeInterval(type, type_same, interval).kind # "int"

\* the value schedule_exists returns when it returns
schedule_exists(type, type_same, interval, start_time, start_same) ==
    /\ Len(ScheduleResults) > 0
    /\ InList(Join(<<<<"1">>, type,
                     FormatInt(ProbeInterval(type, type_same, interval).int),
                     ProbeStartTime(start_time, start_same)>>, ","),
              ScheduleResults)

\* the value schedule_attached assigns to self.attach_results
AttachResults(self) ==
    result_filter(SqlOutput(SelectAttachment(sysjobs, sysschedules, sysjobschedules,
                                             self.job_name, schedule_name)))

\* return len(self.attach_results) > 0
schedule_attached(self) == Len(AttachResults(self)) > 0

\* ------------------------------------------------------------ main

nightly == <<"nightly">>

Zeros == <<"0", "0", "0", "0", "0", "0">>

\* the fields of module.params the run reads; state_same, type_same and
\* start_same say whether the state, the frequency code and the start time
\* are the very objects of the literals they are compared to with `is`
ParamsOf(name, state, state_same, type, per_database, rotate, include, exclude, schedule_type, type_same, schedule_interval, schedule_start_time, start_same) ==
    [name |-> name, state |-> state, state_same |-> state_same,
     type |-> type, path |-> DefaultPath,
     per_database |-> per_database, rotate |-> rotate,
     include |-> include, exclude |-> exclude,
     schedule_type |-> schedule_type, type_same |-> type_same,
     schedule_interval |-> schedule_interval,
     schedule_start_time |-> schedule_start_time, start_same |-> start_same]

States == {"present", "absent", "enabled", "disabled"}

\* a flag is drawn only where the comparison it decides can be true
FlagsMatter(p) ==
    /\ (p.schedule_type # "once" => p.type_same)
    /\ (p.schedule_start_time # Zeros => ~p.start_same)

\* the configurations the runs are started with
RunParams ==
    {p \in {ParamsOf(nightly, st, ss, "full", TRUE, 0, <<>>, <<>>, sch, ts, 1, t, bs) :
                st \in States, ss \in BOOLEAN, sch \in {"once", "daily"}, ts \in BOOLEAN,
                t \in {Zeros, <<"0", "1", "3", "0", "0", "0">>}, bs \in BOOLEAN} :
        FlagsMatter(p)}

\* a server without the job, the step, the schedule and the attachment
FreshServer ==
    /\ sysjobs = {}
    /\ sysjobsteps = {}
    /\ sysschedules = {}
    /\ sysjobschedules = {}
    /\ sysjobservers = {}

Finished == pc \in {"done", "failed"}

\* one call of sqlresults, sqlfile or sqlcmd: which call of main it is and
\* whether sqlcmd ended without an error
Call(name, ok) == [call |-> name, ok |-> ok]

\* path = NamedTemporaryFile(); path.close(); with open(path.name, 'w+') ...:
\* the file is on the disk when sqlfile is called
Written == TRUE

\* sqlfile(...); os.unlink(path.name): the unlink is the statement after the
\* call, reached only when sqlfile returns
AfterSqlfile(exists, raised) == IF raised THEN exists ELSE FALSE

\* the state of a process that has not been started
NoProcess ==
    [pc |-> "idle", params |-> <<>>, backup |-> <<>>, changed |-> FALSE, issued |-> {},
     failure |-> "none", rerun |-> FALSE, fresh |-> FALSE, existed |-> FALSE,
     log |-> <<>>, tempfile |-> FALSE]

Fail(msg) ==
    /\ pc' = "failed"
    /\ failure' = msg

Goto(label) ==
    /\ pc' = label
    /\ failure' = failure

\* module = AnsibleModule(...); backup = BackupJob(...); changed = False
Begin(p, seed, again) ==
    /\ params' = p
    /\ backup' = MainBackupJob(p, seed)
    /\ changed' = FALSE
    /\ issued' = {}
    /\ failure' = "none"
    /\ rerun' = again
    /\ fresh' = FreshServer
    /\ existed' = FALSE
    /\ pc' = "job_exists"
    /\ log' = <<>>
    /\ tempfile' = FALSE
    /\ UNCHANGED <<server, genOut, peer>>

\* a process is started with some configuration
Start ==
    /\ pc = "idle" \/ Finished
    /\ \E p \in RunParams, seed \in Seeds : Begin(p, seed, FALSE)

\* a second process is started with the configuration of the one that ended
Restart ==
    /\ Finished
    /\ \E seed \in Seeds : Begin(params, seed, TRUE)

\* a job probe that adds the job it does not find
JobExistsOrCreates ==
    /\ pc = "job_exists"
    /\ log' = Append(log, Call("job_exists", TRUE))
    /\ sysjobs' = sysjobs \cup {backup.job_name}
    /\ Goto("step_exists")
    /\ existed' = job_exists(backup)
    /\ UNCHANGED <<sysjobsteps, sysschedules, sysjobschedules, sysjobservers,
                   params, backup, changed, issued, rerun, fresh, genOut, tempfile, peer>>

\* if backup.job_exists(): ... elif state is 'present': ...
JobExists ==
    /\ pc = "job_exists"
    /\ log' = Append(log, Call("job_exists", TRUE))
    /\ IF job_exists(backup)
       THEN IF Is(params.state, "absent", params.state_same)
            THEN Fail("delete not implemented")
            ELSE IF Is(params.state, "enabled", params.state_same)
            THEN Fail("enable not implemented")
            ELSE IF Is(params.state, "disabled", params.state_same)
            THEN Fail("disable not implemented")
            ELSE Goto("step_exists")
       ELSE IF Is(params.state, "present", params.state_same)
            THEN Goto("job_create")
            ELSE Goto("step_exists")
    /\ existed' = job_exists(backup)
    /\ UNCHANGED <<server, params, backup, changed, issued, rerun, fresh, genOut, tempfile, peer>>

\* backup.job_create(); changed = True
JobCreate ==
    /\ pc = "job_create"
    /\ log' = Append(log, Call("job_create", TRUE))
    /\ sysjobs' = SpAddJobGuarded(sysjobs, quoteName(backup.job_name))
    /\ issued' = issued \cup {"job_create"}
    /\ changed' = TRUE
    /\ Goto("step_exists")
    /\ UNCHANGED <<sysjobsteps, sysschedules, sysjobschedules, sysjobservers,
                   params, backup, rerun, fresh, existed, genOut, tempfile, peer>>

\* if not backup.backup_step_exists(type, path):
StepExists ==
    /\ pc = "step_exists"
    /\ log' = Append(log, Call("step_exists", TRUE))
    /\ backup' = [backup EXCEPT !.step_results = StepResults(backup)]
    /\ IF MissingDatabases(backup)
       THEN Fail("missing databases")
       ELSE IF backup_step_exists(backup, params.type, params.path)
            THEN Goto("schedule_exists")
            ELSE Goto("step_manage")
    /\ UNCHANGED <<server, params, changed, issued, rerun, fresh, existed, genOut, tempfile, peer>>

\* backup_step_manage: self.step_manage(job_name, step_name, 1, backup_step_sql(type, path))
StepManage ==
    /\ pc = "step_manage"
    /\ IF MissingDatabases(backup)
       THEN /\ Fail("missing databases")
            /\ UNCHANGED <<sysjobsteps, issued, log, tempfile>>
       ELSE /\ issued' = issued \cup {"step_manage"}
            /\ IF StepScriptFails(sysjobs, sysjobsteps, quoteName(backup.job_name),
                                  quoteName(backup_step_name))
               THEN /\ log' = Append(log, Call("step_manage", FALSE))
                    /\ tempfile' = AfterSqlfile(Written, TRUE)
                    /\ Fail("CalledProcessError")
                    /\ UNCHANGED sysjobsteps
               ELSE /\ log' = Append(log, Call("step_manage", TRUE))
                    /\ tempfile' = AfterSqlfile(Written, FALSE)
                    /\ sysjobsteps' =
                          StepScript(sysjobs, sysjobsteps, quoteName(backup.job_name),
                                     quoteName(backup_step_name),
                                     quoteName(backup_step_sql(backup, params.type, params.path)))
                    /\ Goto("step_confirm")
    /\ UNCHANGED <<sysjobs, sysschedules, sysjobschedules, sysjobservers,
                   params, backup, changed, rerun, fresh, existed, genOut, peer>>

\* backup_step_manage: return self.backup_step_exists(type, path); changed = True
StepConfirm ==
    /\ pc = "step_confirm"
    /\ log' = Append(log, Call("step_confirm", TRUE))
    /\ backup' = [backup EXCEPT !.step_results = StepResults(backup)]
    /\ changed' = (changed \/ backup_step_exists(backup, params.type, params.path))
    /\ Goto("schedule_exists")
    /\ UNCHANGED <<server, params, issued, rerun, fresh, existed, genOut, tempfile, peer>>

\* a schedule probe that keeps its rows to itself
KeepScheduleResults(self) == self

\* the assignment self.schedule_results = results of schedule_exists
AssignScheduleResults(self) ==
    IF Len(ScheduleResults) > 0
    THEN [self EXCEPT !.schedule_results = ScheduleResults]
    ELSE self

ScheduleArgsRaise(p) ==
    ScheduleExistsRaises(schedule_types[p.schedule_type], p.type_same,
                         p.schedule_interval, p.schedule_start_time, p.start_same)

ScheduleArgsExist(p) ==
    schedule_exists(schedule_types[p.schedule_type], p.type_same,
                    p.schedule_interval, p.schedule_start_time, p.start_same)

\* if not backup.schedule_exists(schedule_types[schedule_type], schedule_interval, schedule_start_time):
ScheduleExists ==
    /\ pc = "schedule_exists"
    /\ log' = Append(log, Call("schedule_exists", TRUE))
    /\ backup' = AssignScheduleResults(backup)
    /\ IF ScheduleArgsRaise(params)
       THEN Fail("TypeError")
       ELSE IF ScheduleArgsExist(params)
            THEN Goto("schedule_attached")
            ELSE Goto("schedule_manage")
    /\ UNCHANGED <<server, params, changed, issued, rerun, fresh, existed, genOut, tempfile, peer>>

\* schedule_manage: sqlcmd(IF NOT EXISTS ... sp_add_schedule ... ELSE sp_update_schedule ...)
ScheduleManage ==
    /\ pc = "schedule_manage"
    /\ log' = Append(log, Call("schedule_manage", TRUE))
    /\ sysschedules' =
           ScheduleScript(sysschedules, quoteName(schedule_name),
                          schedule_types[params.schedule_type],
                          FormatInt(params.schedule_interval),
                          params.schedule_start_time)
    /\ issued' = issued \cup {"schedule_manage"}
    /\ Goto("schedule_confirm")
    /\ UNCHANGED <<sysjobs, sysjobsteps, sysjobschedules, sysjobservers,
                   params, backup, changed, rerun, fresh, existed, genOut, tempfile, peer>>

\* schedule_manage: return self.schedule_exists(type, interval, start_time); changed = True
ScheduleConfirm ==
    /\ pc = "schedule_confirm"
    /\ log' = Append(log, Call("schedule_confirm", TRUE))
    /\ backup' = AssignScheduleResults(backup)
    /\ IF ScheduleArgsRaise(params)
       THEN /\ Fail("TypeError")
            /\ UNCHANGED changed
       ELSE /\ changed' = (changed \/ ScheduleArgsExist(params))
            /\ Goto("schedule_attached")
    /\ UNCHANGED <<server, params, issued, rerun, fresh, existed, genOut, tempfile, peer>>

\* if not backup.schedule_attached():
ScheduleAttached ==
    /\ pc = "schedule_attached"
    /\ log' = Append(log, Call("schedule_attached", TRUE))
    /\ backup' = [backup EXCEPT !.attach_results = AttachResults(backup)]
    /\ IF schedule_attached(backup) THEN Goto("report") ELSE Goto("schedule_attach")
    /\ UNCHANGED <<server, params, changed, issued, rerun, fresh, existed, genOut, tempfile, peer>>

\* schedule_attach: sqlcmd(EXEC sp_attach_schedule ...; EXEC sp_add_jobserver ...)
ScheduleAttach ==
    /\ pc = "schedule_attach"
    /\ issued' = issued \cup {"schedule_attach"}
    /\ log' = Append(log, Call("schedule_attach",
                    ~AttachScriptFails(sysjobs, sysschedules, sysjobservers,
                                       quoteName(backup.job_name), quoteName(schedule_name))))
    /\ IF AttachScriptFails(sysjobs, sysschedules, sysjobservers,
                            quoteName(backup.job_name), quoteName(schedule_name))
       THEN /\ Fail("CalledProcessError")
            /\ UNCHANGED <<sysjobschedules, sysjobservers>>
       ELSE /\ sysjobschedules' = SpAttachSchedule(sysjobschedules,
                                       quoteName(backup.job_name), quoteName(schedule_name))
            /\ sysjobservers' = SpAddJobserver(sysjobservers, quoteName(backup.job_name))
            /\ Goto("attach_confirm")
    /\ UNCHANGED <<sysjobs, sysjobsteps, sysschedules,
                   params, backup, changed, rerun, fresh, existed, genOut, tempfile, peer>>

\* schedule_attach: return self.schedule_attached(); changed = True
AttachConfirm ==
    /\ pc = "attach_confirm"
    /\ log' = Append(log, Call("attach_confirm", TRUE))
    /\ backup' = [backup EXCEPT !.attach_results = AttachResults(backup)]
    /\ changed' = (changed \/ schedule_attached(backup))
    /\ Goto("report")
    /\ UNCHANGED <<server, params, issued, rerun, fresh, existed, genOut, tempfile, peer>>

\* results = {...}; module.exit_json(**results)
Report ==
    /\ pc = "report"
    /\ IF Unset \in {backup.step_results, backup.schedule_results, backup.attach_results}
       THEN Fail("AttributeError")
       ELSE Goto("done")
    /\ UNCHANGED <<server, params, backup, changed, issued, rerun, fresh, existed, genOut, log, tempfile, peer>>

NoBackup == BackupJobNew(<<>>, <<>>, <<>>, FALSE, 0)

NoParams == ParamsOf(<<>>, "present", FALSE, "full", FALSE, 0, <<>>, <<>>, "daily", FALSE, 1, <<>>, FALSE)

Init ==
    /\ FreshServer
    /\ pc = "idle"
    /\ params = NoParams
    /\ backup = NoBackup
    /\ changed = FALSE
    /\ issued = {}
    /\ failure = "none"
    /\ rerun = FALSE
    /\ fresh = TRUE
    /\ existed = FALSE
    /\ genOut = <<>>
    /\ log = <<>>
    /\ tempfile = FALSE
    /\ peer = NoProcess

Next ==
    \/ Start
    \/ Restart
    \/ JobExists
    \/ JobCreate
    \/ StepExists
    \/ StepManage
    \/ StepConfirm
    \/ ScheduleExists
    \/ ScheduleManage
    \/ ScheduleConfirm
    \/ ScheduleAttached
    \/ ScheduleAttach
    \/ AttachConfirm
    \/ Report

Spec == Init /\ [][Next]_vars

\* ------------------------------------------------------------ the generator alone

\* the configurations the generator is called with
GenParams ==
    {ParamsOf(nightly, "present", TRUE, ty, pd, ro, inc, exc, "daily", TRUE, 1, Zeros, TRUE) :
        ty \in {"full", "logs"}, pd \in BOOLEAN, ro \in 0..MaxRotate,
        inc \in SeqsUpTo(IncludeNames, MaxInclude),
        exc \in SeqsUpTo(ExcludeNames, MaxExclude)}

\* a process starts: main builds the BackupJob
GenConstruct ==
    /\ pc = "gen_start"
    /\ \E seed \in Seeds : backup' = MainBackupJob(params, seed)
    /\ pc' = "gen_ready"
    /\ UNCHANGED <<server, params, changed, issued, failure, rerun, fresh, existed,
                   genOut, log, tempfile, peer>>

\* the process calls backup.backup_step_sql(type, path)
GenCall ==
    /\ pc = "gen_ready"
    /\ Len(genOut) < MaxCalls
    /\ genOut' = Append(genOut,
                    IF MissingDatabases(backup)
                    THEN [raised |-> TRUE, text |-> <<>>]
                    ELSE [raised |-> FALSE,
                          text |-> backup_step_sql(backup, params.type, params.path)])
    /\ UNCHANGED <<server, process, peer>>

\* the process ends; the next one is started with the same configuration
GenExit ==
    /\ pc = "gen_ready"
    /\ Len(genOut) > 0
    /\ pc' = "gen_start"
    /\ UNCHANGED <<server, params, backup, changed, issued, failure, rerun, fresh, existed,
                   genOut, log, tempfile, peer>>

InitGen ==
    /\ FreshServer
    /\ pc = "gen_start"
    /\ params \in GenParams
    /\ backup = NoBackup
    /\ changed = FALSE
    /\ issued = {}
    /\ failure = "none"
    /\ rerun = FALSE
    /\ fresh = TRUE
    /\ existed = FALSE
    /\ genOut = <<>>
    /\ log = <<>>
    /\ tempfile = FALSE
    /\ peer = NoProcess

NextGen ==
    \/ GenConstruct
    \/ GenCall
    \/ GenExit

SpecGen == InitGen /\ [][NextGen]_vars

\* ------------------------------------------------------------ the schedule stage alone

Intervals == {1, 5}

StartTimes ==
    {Zeros, <<"0", "1", "3", "0", "0", "0">>, <<"1", "3", "0", "0", "0">>,
     <<"0", "2", "0", "0", "0", "0">>}

\* the schedule configurations of the stage
SchedParams ==
    {p \in {ParamsOf(nightly, "present", TRUE, "full", TRUE, 0, <<>>, <<>>, sch, ts, i, t, bs) :
                sch \in {"once", "daily"}, ts \in BOOLEAN, i \in Intervals,
                t \in StartTimes, bs \in BOOLEAN} :
        FlagsMatter(p)}

\* the rows the schedule can hold when the stage begins: none, or one that
\* sp_add_schedule or sp_update_schedule stored
StoredSchedules ==
    {{}} \cup {{ScheduleRow(schedule_name, schedule_types[sch], FormatInt(i), t)} :
                  sch \in {"once", "daily"}, i \in Intervals, t \in StartTimes}

\* main has reached the schedule stage: the job exists and its step is stored
InitSched ==
    /\ params \in SchedParams
    /\ sysjobs = {nightly}
    /\ sysjobsteps =
           StepScript({nightly}, {}, quoteName(nightly), quoteName(backup_step_name),
                      quoteName(backup_step_sql(MainBackupJob(params, 0),
                                                params.type, params.path)))
    /\ sysschedules \in StoredSchedules
    /\ sysjobschedules = {}
    /\ sysjobservers = {}
    /\ backup = [MainBackupJob(params, 0) EXCEPT
                    !.step_results = StepResults(MainBackupJob(params, 0))]
    /\ pc = "schedule_exists"
    /\ changed = FALSE
    /\ issued = {"step_manage"}
    /\ failure = "none"
    /\ rerun = FALSE
    /\ fresh = FALSE
    /\ existed = TRUE
    /\ genOut = <<>>
    /\ log = <<Call("job_exists", TRUE), Call("step_exists", TRUE),
               Call("step_manage", TRUE), Call("step_confirm", TRUE)>>
    /\ tempfile = FALSE
    /\ peer = NoProcess

NextSched ==
    \/ ScheduleExists
    \/ ScheduleManage
    \/ ScheduleConfirm

SpecSched == InitSched /\ [][NextSched]_vars

\* ------------------------------------------------------------ runs with failing calls

\* the places of main where the next thing it does is one sqlcmd call
CallLabels ==
    {"job_exists", "job_create", "step_exists", "step_manage", "step_confirm",
     "schedule_exists", "schedule_manage", "schedule_confirm",
     "schedule_attached", "schedule_attach", "attach_confirm"}

MutationLabels == {"job_create", "step_manage", "schedule_manage", "schedule_attach"}

\* a caller that keeps the error of the call to itself and calls again
CallFailsAndIsRetried ==
    /\ pc \in CallLabels
    /\ log' = Append(log, Call(pc, FALSE))
    /\ UNCHANGED <<server, pc, params, backup, changed, issued, failure, rerun, fresh,
                   existed, genOut, tempfile, peer>>

\* sqlcmd ends with an error before it has changed anything (server down,
\* login refused, statement rejected): subprocess.check_output / check_call
\* raise CalledProcessError, and neither the functions nor main catch it
CallFails ==
    /\ pc \in CallLabels
    /\ ~(pc = "step_manage" /\ MissingDatabases(backup))
    /\ log' = Append(log, Call(pc, FALSE))
    /\ issued' = IF pc \in MutationLabels THEN issued \cup {pc} ELSE issued
    /\ tempfile' = IF pc = "step_manage" THEN AfterSqlfile(Written, TRUE) ELSE tempfile
    /\ Fail("CalledProcessError")
    /\ UNCHANGED <<server, params, backup, changed, rerun, fresh, existed, genOut, peer>>

NextFail ==
    \/ Start
    \/ JobExists
    \/ JobCreate
    \/ StepExists
    \/ StepManage
    \/ StepConfirm
    \/ ScheduleExists
    \/ ScheduleManage
    \/ ScheduleConfirm
    \/ ScheduleAttached
    \/ ScheduleAttach
    \/ AttachConfirm
    \/ Report
    \/ CallFails

SpecFail == Init /\ [][NextFail]_vars

\* ------------------------------------------------------------ two runs interleaved

\* the running process, as it is kept while the other one runs
Suspended ==
    [pc |-> pc, params |-> params, backup |-> backup, changed |-> changed, issued |-> issued,
     failure |-> failure, rerun |-> rerun, fresh |-> fresh, existed |-> existed,
     log |-> log, tempfile |-> tempfile]

\* a process of main that has built its BackupJob and made no call yet
Started(p, seed, onFresh) ==
    [pc |-> "job_exists", params |-> p, backup |-> MainBackupJob(p, seed), changed |-> FALSE,
     issued |-> {}, failure |-> "none", rerun |-> FALSE, fresh |-> onFresh, existed |-> FALSE,
     log |-> <<>>, tempfile |-> FALSE]

\* Between two of its sqlcmd calls a process can be overtaken by the other
\* one: the two exchange places.  Nothing in the module serialises two runs.
Switch ==
    /\ peer.pc \notin {"idle", "done", "failed"}
    /\ peer' = Suspended
    /\ pc' = peer.pc
    /\ params' = peer.params
    /\ backup' = peer.backup
    /\ changed' = peer.changed
    /\ issued' = peer.issued
    /\ failure' = peer.failure
    /\ rerun' = peer.rerun
    /\ fresh' = peer.fresh
    /\ existed' = peer.existed
    /\ log' = peer.log
    /\ tempfile' = peer.tempfile
    /\ UNCHANGED <<server, genOut>>

\* the configurations two concurrent runs are both started with
RaceParams ==
    {p \in {ParamsOf(nightly, st, ss, "full", TRUE, 0, <<>>, <<>>, "daily", TRUE, 1, Zeros, bs) :
                st \in States, ss \in BOOLEAN, bs \in BOOLEAN} :
        FlagsMatter(p)}

\* two processes with one configuration, started on a server that has the
\* job or has nothing
InitRace ==
    /\ sysjobs \in {{}, {nightly}}
    /\ sysjobsteps = {}
    /\ sysschedules = {}
    /\ sysjobschedules = {}
    /\ sysjobservers = {}
    /\ \E p \in RaceParams, seed \in Seeds, other \in Seeds :
           /\ params = p
           /\ backup = MainBackupJob(p, seed)
           /\ peer = Started(p, other, sysjobs = {})
    /\ pc = "job_exists"
    /\ changed = FALSE
    /\ issued = {}
    /\ failure = "none"
    /\ rerun = FALSE
    /\ fresh = (sysjobs = {})
    /\ existed = FALSE
    /\ genOut = <<>>
    /\ log = <<>>
    /\ tempfile = FALSE

NextRace ==
    \/ Switch
    \/ JobExists
    \/ JobCreate
    \/ StepExists
    \/ StepManage
    \/ StepConfirm
    \/ ScheduleExists
    \/ ScheduleManage
    \/ ScheduleConfirm
    \/ ScheduleAttached
    \/ ScheduleAttach
    \/ AttachConfirm
    \/ Report

SpecRace == InitRace /\ [][NextRace]_vars

\* ------------------------------------------------------------ several jobs, one schedule

reports == <<"reports">>

\* the names of the jobs the runs are asked to reconcile
JobNames == {nightly, reports}

\* the configurations of the runs: a job name and schedule parameters
SharedParams ==
    {p \in {ParamsOf(n, "present", TRUE, "full", TRUE, 0, <<>>, <<>>, sch, ts, i, t, bs) :
                n \in JobNames, sch \in {"once", "daily"}, ts \in BOOLEAN, i \in Intervals,
                t \in {Zeros, <<"0", "1", "3", "0", "0", "0">>}, bs \in BOOLEAN} :
        FlagsMatter(p)}

\* a process is started for one of the jobs
StartShared ==
    /\ pc = "idle" \/ Finished
    /\ \E p \in SharedParams, seed \in Seeds : Begin(p, seed, FALSE)

NextShared ==
    \/ StartShared
    \/ JobExists
    \/ JobCreate
    \/ StepExists
    \/ StepManage
    \/ StepConfirm
    \/ ScheduleExists
    \/ ScheduleManage
    \/ ScheduleConfirm
    \/ ScheduleAttached
    \/ ScheduleAttach
    \/ AttachConfirm
    \/ Report

SpecShared == Init /\ [][NextShared]_vars

\* ------------------------------------------------------------ runs that differ in the backup type

\* type = dict(default = 'full', choices=['full','logs'])
BackupTypes == {"full", "logs"}

OtherType(type) == IF type = "full" THEN "logs" ELSE "full"

\* the configurations of the first run
TypeParams ==
    {p \in {ParamsOf(nightly, "present", TRUE, ty, pd, ro, <<>>, exc, "daily", TRUE, 1, t, bs) :
                ty \in BackupTypes, pd \in BOOLEAN, ro \in 0..MaxRotate,
                exc \in SeqsUpTo(ExcludeNames, MaxExclude),
                t \in {Zeros, <<"0", "1", "3", "0", "0", "0">>}, bs \in BOOLEAN} :
        FlagsMatter(p)}

\* the first run, on the fresh server
StartType ==
    /\ pc = "idle"
    /\ \E p \in TypeParams, seed \in Seeds : Begin(p, seed, FALSE)

\* the job is reconciled; the next run is given the other type and is
\* otherwise configured as the one before
Retype ==
    /\ pc = "done"
    /\ \E seed \in Seeds : Begin([params EXCEPT !.type = OtherType(@)], seed, TRUE)

NextType ==
    \/ StartType
    \/ Retype
    \/ JobExists
    \/ JobCreate
    \/ StepExists
    \/ StepManage
    \/ StepConfirm
    \/ ScheduleExists
    \/ ScheduleManage
    \/ ScheduleConfirm
    \/ ScheduleAttached
    \/ ScheduleAttach
    \/ AttachConfirm
    \/ Report

SpecType == Init /\ [][NextType]_vars

\* ------------------------------------------------------------ the run's claims

Unsupported == {"delete not implemented", "enable not implemented", "disable not implemented"}

\* the probes as the run's configuration asks them
StepProbe == backup_step_exists(backup, params.type, params.path)
ScheduleProbe == ~ScheduleArgsRaise(params) /\ ScheduleArgsExist(params)
AttachmentProbe == schedule_attached(backup)

\* C1: a run that repeats the configuration of the run before it, with
\* state=present, ends by reporting a result, and the result has changed=false
C1_SecondRunReportsUnchanged ==
    (rerun /\ Finished /\ params.state = "present") => (pc = "done" /\ ~changed)

\* C2: a run with state=present that began on a fresh server and completed
\* reports changed=true and leaves the job present and the step, schedule and
\* attachment probes true
C2_FreshServerConverges ==
    (pc = "done" /\ fresh /\ params.state = "present")
        => /\ changed
           /\ job_exists(backup)
           /\ StepProbe
           /\ ScheduleProbe
           /\ AttachmentProbe

\* C3: when the job existed at the job probe and the requested state is
\* absent, enabled or disabled, the run issues no mutation and ends with the
\* unsupported-operation failure
C3_UnsupportedAborts ==
    (existed /\ params.state # "present")
        => /\ issued = {}
           /\ pc = "failed"
           /\ failure \in Unsupported

\* C4: a run that issued the step, schedule or attach mutation and completed
\* normally has the corresponding probe true (a mutation whose re-probe still
\* reports a mismatch ends the run in failure)
C4_ChangeNotAppliedIsFatal ==
    pc = "done"
        => /\ ("step_manage" \in issued => StepProbe)
           /\ ("schedule_manage" \in issued => ScheduleProbe)
           /\ ("schedule_attach" \in issued => AttachmentProbe)

\* C5: a run that completes reports changed=true exactly when it issued at
\* least one mutation
C5_ChangedIsFaithful ==
    pc = "done" => (changed <=> issued # {})

\* where main is inside the step, schedule and attachment stages
StepStage == {"step_exists", "step_manage", "step_confirm"}
ScheduleStage == {"schedule_exists", "schedule_manage", "schedule_confirm"}
AttachStage == {"schedule_attached", "schedule_attach", "attach_confirm"}

\* the job existed at the job probe or this run has created it
JobPresentForRun == existed \/ "job_create" \in issued

\* C12: the step mutation is issued only when the job is present on the
\* server, and the step, schedule and attachment stages are entered only for
\* a job that existed at the job probe or was created earlier in the run
C12_StagesNeedTheJob ==
    /\ "step_manage" \in issued => (JobPresentForRun /\ backup.job_name \in sysjobs)
    /\ pc \in StepStage \cup ScheduleStage \cup AttachStage => JobPresentForRun

\* the mutations whose script carries an IF NOT EXISTS guard
GuardedMutations == {"job_create", "step_manage", "schedule_manage"}

\* no guarded mutation among the calls of a log has failed
NoGuardedMutationFailed(calls) ==
    \A i \in 1..Len(calls) : calls[i].call \in GuardedMutations => calls[i].ok

\* the server holds at most one schedule of the fixed name and, for every
\* job, at most one step of the fixed name
OneOfEachName ==
    /\ Cardinality({r \in sysschedules : r.name = schedule_name}) <= 1
    /\ \A j \in sysjobs :
           Cardinality({r \in sysjobsteps : r.job = j /\ r.step_name = backup_step_name}) <= 1

\* C13: when two runs with one configuration are interleaved between their
\* server round trips, no job, step or schedule mutation of either run fails,
\* whatever the server holds when it is executed, and none creates a second
\* object of the same name
C13_GuardedMutationsAreSafe ==
    /\ NoGuardedMutationFailed(log)
    /\ NoGuardedMutationFailed(peer.log)
    /\ OneOfEachName

\* the run has called the named function and the call has returned or raised
Called(name) == \E i \in 1..Len(log) : log[i].call = name

\* C14: once step_manage has returned or raised, whether its script succeeded
\* or failed, the temporary file it wrote is no longer on the disk
C14_TempFileRemoved == Called("step_manage") => ~tempfile

\* C15: a call to sqlcmd that fails is the last call of its run: the run is
\* in failure with the call's error, no later probe or mutation follows, the
\* call is not repeated, and no result is reported
C15_AbortOnFirstFailure ==
    \A i \in 1..Len(log) :
        ~log[i].ok => /\ i = Len(log)
                      /\ pc = "failed"
                      /\ failure = "CalledProcessError"

\* a run that had written to the server failed at its schedule probe
C15_Witness ==
    /\ pc = "failed"
    /\ "step_manage" \in issued
    /\ Len(log) > 0
    /\ log[Len(log)] = Call("schedule_exists", FALSE)

\* the places of main where the next call is one of the four probes
ProbeLabels == CallLabels \ MutationLabels

\* C16: a call of job_exists, backup_step_exists, schedule_exists or
\* schedule_attached sends exactly one query and leaves the server's jobs,
\* steps, schedules, attachments and target servers as they were
C16_ProbesAreReadOnly ==
    [][(pc \in ProbeLabels) =>
          (server' = server /\ Len(log') = Len(log) + 1 /\ log'[Len(log')].call = pc)]_vars

\* the attachment probe has just been asked on a server that holds an attachment
C16_Witness ==
    /\ Len(log) > 0
    /\ log[Len(log)] = Call("attach_confirm", TRUE)
    /\ sysjobschedules # {}
    /\ \A label \in ProbeLabels : Called(label)

\* the three attributes main puts in the result
ResultFields == {backup.step_results, backup.schedule_results, backup.attach_results}

\* C18: a run that builds its result has step_results, schedule_results and
\* attach_results assigned, each by a probe called earlier in this run;
\* schedule_results is assigned only from a query that returned a row; and no
\* run ends by reading an attribute that was never set
C18_ResultFieldsAssigned ==
    /\ pc \in {"report", "done"} =>
           /\ Unset \notin ResultFields
           /\ Called("step_exists")
           /\ Called("schedule_exists")
           /\ Called("schedule_attached")
    /\ backup.schedule_results # Unset => Len(backup.schedule_results) > 0
    /\ failure # "AttributeError"

\* a run whose first schedule query returned no row has reported its result
C18_Witness ==
    /\ pc = "done"
    /\ fresh
    /\ "schedule_manage" \in issued
    /\ Unset \notin ResultFields

\* the schedules of the fixed name on the server
TheSchedule == {r \in sysschedules : r.name = schedule_name}

\* the row the server keeps for the schedule parameters of a configuration
RequestedRow(p) ==
    ScheduleRow(schedule_name, schedule_types[p.schedule_type],
                FormatInt(p.schedule_interval), p.schedule_start_time)

\* C19: the server holds one schedule of the fixed name and every attachment
\* is to it; once a run, for whatever job, has been through its schedule
\* stage, that schedule has the run's parameters (created, or overwritten
\* where it differed), and with it every job attached earlier
C19_SharedScheduleFollowsLastRun ==
    /\ Cardinality(TheSchedule) <= 1
    /\ \A link \in sysjobschedules : link.schedule = schedule_name
    /\ (Called("schedule_exists") /\ pc \notin ScheduleStage)
           => TheSchedule = {RequestedRow(params)}

\* C20: the script generated and the step probe's answer are the same for
\* type=full and type=logs, and a run that differs from the completed run
\* before it in the type alone reports changed=false and issues no step update
C20_TypeHasNoEffect ==
    /\ pc # "idle" =>
           /\ backup_step_sql(backup, "full", params.path)
                  = backup_step_sql(backup, "logs", params.path)
           /\ backup_step_exists(backup, "full", params.path)
                  = backup_step_exists(backup, "logs", params.path)
    /\ (rerun /\ pc = "done") => (~changed /\ "step_manage" \notin issued)

\* ------------------------------------------------------------ the generator's claims

\* the lines of a generated script
ScriptLines(text) == Split(text, LF)

\* the line of the script that begins with `lead` after its indentation
LineAfter(text, lead) ==
    LET lines == ScriptLines(text)
    IN  lines[CHOOSE k \in 1..Len(lines) : Len(lines[k]) >= 2 /\ lines[k][2] = lead]

\* the per-row file name expression names @fileDate
CarriesFileDate(text) == "@fileDate" \in Range(LineAfter(text, "SET @fileName = "))

\* the filter clause: what stands between WHERE and the closing ";"
FilterClause(text) ==
    LET line == LineAfter(text, "SELECT name FROM master.sys.databases WHERE ")
    IN  SubSeq(line, 3, Len(line) - 2)

\* the quoted names listed between the parentheses of the clause
ClauseNames(clause) == Range(Split(SubSeq(clause, 2, Len(clause) - 1), ","))

Generated == {genOut[i] : i \in DOMAIN genOut}

\* the exclude set of the run: the protected databases and the user's list
ExcludeSet(p) == ProtectedDatabases \cup Range(p.exclude)

\* C6: the file name expression of a generated script carries @fileDate
\* exactly when rotate > 0
C6_DateStampIffRotate ==
    \A g \in Generated : ~g.raised => (CarriesFileDate(g.text) <=> params.rotate > 0)

\* C9: all scripts generated for one configuration, by one process or by
\* several, are the same text
C9_ScriptIsDeterministic ==
    \A g \in Generated, h \in Generated : g = h

\* C10 as stated: with a non-empty include list the clause is the IN form over
\* the quoted include names and lists no name of the exclude set; the NOT IN
\* form occurs only with an empty include list
C10_IncludeHidesExcludeSet ==
    \A g \in Generated : ~g.raised =>
        LET clause == FilterClause(g.text)
        IN  /\ Len(params.include) > 0 =>
                /\ clause[1] = "name IN ("
                /\ clause[Len(clause)] = ")"
                /\ Split(SubSeq(clause, 2, Len(clause) - 1), ",")
                       = [i \in 1..Len(params.include) |-> quoteName(params.include[i])]
                /\ \A n \in ExcludeSet(params) : quoteName(n) \notin ClauseNames(clause)
            /\ clause[1] = "name NOT IN (" => Len(params.include) = 0

\* C10 amended: with a non-empty include list the clause is the IN form over
\* the quoted include names, in the order of the list, and lists no name of
\* the exclude set other than those the include list itself names; the
\* NOT IN form occurs only with an empty include list
C10_IncludeTakesPrecedence ==
    \A g \in Generated : ~g.raised =>
        LET clause == FilterClause(g.text)
        IN  /\ Len(params.include) > 0 =>
                /\ clause[1] = "name IN ("
                /\ clause[Len(clause)] = ")"
                /\ Split(SubSeq(clause, 2, Len(clause) - 1), ",")
                       = [i \in 1..Len(params.include) |-> quoteName(params.include[i])]
                /\ \A n \in ExcludeSet(params) \ Range(params.include) :
                       quoteName(n) \notin ClauseNames(clause)
            /\ clause[1] = "name NOT IN (" => Len(params.include) = 0

\* a script was generated for an include list that names a protected
\* database next to another one, with a user exclude list
C10_Witness ==
    /\ Len(genOut) > 0
    /\ ~genOut[1].raised
    /\ Len(params.include) = 2
    /\ master \in Range(params.include)
    /\ Len(params.exclude) > 0
    /\ FilterClause(genOut[1].text)[1] = "name IN ("

\* the names the server reads in the clause's list
ClauseValues(clause) == {SqlLiteralValue(lit) : lit \in ClauseNames(clause)}

\* C11: for an empty include list the generated clause is the NOT IN form and
\* the set of names it lists is exactly {master, model, msdb, tempdb} united
\* with the user's exclude list
C11_ProtectedUnion ==
    \A g \in Generated :
        (~g.raised /\ Len(params.include) = 0) =>
            LET clause == FilterClause(g.text)
            IN  /\ clause[1] = "name NOT IN ("
                /\ clause[Len(clause)] = ")"
                /\ ClauseNames(clause) = {quoteName(n) : n \in ExcludeSet(params)}
                /\ ClauseValues(clause) = ProtectedDatabases \cup Range(params.exclude)

\* a script was generated for an empty include list and a user exclude list
\* that names a database
C11_Witness ==
    /\ Len(genOut) > 0
    /\ ~genOut[1].raised
    /\ Len(params.include) = 0
    /\ Len(params.exclude) > 0
    /\ FilterClause(genOut[1].text)[1] = "name NOT IN ("

\* C17: whatever include and exclude lists the run was given, the exclude
\* set main hands to the generator holds the four protected databases, and
\* no call of the generator ends with the 'missing databases' error
C17_NeverMissingDatabases ==
    /\ pc = "gen_ready" =>
           /\ ProtectedDatabases \subseteq Range(backup.exclude)
           /\ ~MissingDatabases(backup)
    /\ \A g \in Generated : ~g.raised

\* the generator was called in a run given no include and no exclude list
C17_Witness ==
    /\ pc = "gen_ready"
    /\ Len(genOut) > 0
    /\ Len(params.include) = 0
    /\ Len(params.exclude) = 0
    /\ Len(backup.exclude) = Cardinality(ProtectedDatabases)

\* ------------------------------------------------------------ the schedule probe's claims

\* the stored schedule is the one-time row (1, 1, 0, t) with t the requested start time
StoredOnceRow ==
    \E r \in sysschedules :
        /\ r.name = schedule_name
        /\ r.enabled = 1
        /\ r.freq_type = 1
        /\ r.freq_interval = 0
        /\ r.active_start_time = ParseInt(params.schedule_start_time)

\* schedule_exists has returned to main and nothing has been written since
ProbeReturned == pc # "schedule_exists" /\ "schedule_manage" \notin issued

\* C7: against the stored row (1, 1, 0, t) the probe asked for a one-time
\* schedule at t, whatever the requested interval, returns true, and main
\* goes on to the attachment without a schedule update
C7_OnceIgnoresInterval ==
    (ProbeReturned /\ params.schedule_type = "once" /\ StoredOnceRow)
        => pc = "schedule_attached"

\* the requested and the stored start time agree: all zeros against 0,
\* otherwise the same digits once leading zeros are stripped
StartAgrees(requested, stored) ==
    IF requested = Zeros THEN stored = 0
    ELSE LStrip(requested, "0") = LStrip(FormatInt(stored), "0")

\* C8: for a daily schedule whose stored row has the requested frequency
\* type and interval, the probe returns true exactly when the start times agree
C8_StartTimeNormalized ==
    (ProbeReturned /\ params.schedule_type = "daily")
        => \A r \in sysschedules :
               (r.enabled = 1 /\ r.freq_type = 4
                    /\ r.freq_interval = params.schedule_interval)
                   => (pc = "schedule_attached"
                           <=> StartAgrees(params.schedule_start_time, r.active_start_time))

====
